---- MODULE Spec2Model ----
(***************************************************************************)
(* BankersParty (src/src/lib.rs): a collateralised lending pool written    *)
(* as a Scrypto blueprint.  The component state is the pool vault, the     *)
(* map of reward vaults and the non-fungible banker tickets held by the    *)
(* ticket resource manager.  One action per public method; a method that   *)
(* panics aborts its transaction, so the ledger keeps the state it had     *)
(* before the call.                                                        *)
(*                                                                         *)
(* Decimal is a signed fixed-point number.  Amounts are held here as       *)
(* integers counting units of 1/ONE; products and quotients are truncated  *)
(* toward zero as Decimal's Mul and Div do.  The width of Decimal (i128)   *)
(* is far above every value the bounded runs reach and is not modelled.    *)
(***************************************************************************)
EXTENDS Integers, Sequences, FiniteSets, TLC

\* ------------------------------------------------------------------ bounds
\* number of ticket ids NonFungibleId::random() can draw
MaxTickets == 2
\* number of successful calls in one run
MaxCalls == 4

\* -------------------------------------------------------- Decimal (scrypto)
\* raw units per token: the fixed-point unit of Decimal, scaled down
ONE == 100

Abs(x) == IF x < 0 THEN -x ELSE x

\* integer quotient rounded toward zero
TruncDiv(a, b) ==
    LET q == Abs(a) \div Abs(b)
    IN  IF (a < 0) # (b < 0) THEN -q ELSE q

\* Decimal * Decimal
DecMul(a, b) == TruncDiv(a * b, ONE)

\* Decimal / Decimal, b # 0 (a zero divisor panics: the callers test it)
DecDiv(a, b) == TruncDiv(a * ONE, b)

\* dec!("1.5"), dec!("0.02"), dec!("100"), the lock of 500 epochs
COLLATERAL_RATIO == (3 * ONE) \div 2
COMMISSION_RATE == (2 * ONE) \div 100
MIN_BANK == 100 * ONE
LOCK_EPOCHS == 500

\* ------------------------------------------------------------------ inputs
Ids == 1..MaxTickets

BankerTicket == "banker_ticket"
OtherResource == "other_resource"

\* what a caller can present as `ticket`: a banker ticket id, or a token of
\* another resource
Presented ==
    [resource : {BankerTicket}, id : Ids] \cup [resource : {OtherResource}, id : {1}]

\* amounts of the buckets of the pool's token offered to bank() (a bucket
\* never holds a negative amount)
BankAmounts == {50 * ONE, 100 * ONE, 150 * ONE, 300 * ONE}
\* amounts asked of borrow()
BorrowAmounts == {-ONE, 1, 50 * ONE, 100 * ONE}
\* amounts asked of reduce_bank()
ReduceAmounts == {-ONE, 50 * ONE, 150 * ONE, 150 * ONE + 1}
\* amounts of the buckets of the pool's token offered to payback_loan()
PaybackAmounts == {50 * ONE, 100 * ONE}
\* the values Runtime::current_epoch() takes in a run
Epochs == {0, LOCK_EPOCHS - 1, LOCK_EPOCHS}

\* ------------------------------------------------------------------- state
VARIABLES
    banker_tickets,   \* live tickets: id -> BankerTicketData
    bankers_rewards,  \* HashMap<NonFungibleId, Vault>: id -> vault amount
    bank_pool,        \* amount held by the bank_pool vault
    epoch,            \* Runtime::current_epoch()
    last,             \* the last call: method, arguments, outcome
    closed,           \* ids whose unbank succeeded (history)
    calls             \* number of successful calls so far

vars == <<banker_tickets, bankers_rewards, bank_pool, epoch, last, closed, calls>>

\* the component state a method works on
State(tickets, rewards, pool) == [tickets |-> tickets, rewards |-> rewards, pool |-> pool]

Current == State(banker_tickets, bankers_rewards, bank_pool)

\* outcome of a method body: whether it ran to its end, the amount of the
\* bucket it returns, and the state it has written so far
Done(ret, st) == [ok |-> TRUE, ret |-> ret, st |-> st]
Panic(st) == [ok |-> FALSE, ret |-> 0, st |-> st]

\* variant: what the method wrote before it panicked stays
Transaction_without_abort(run) == run

\* A panic (a failed assert!, unwrap or Vault::take) aborts the transaction:
\* nothing the method wrote is committed.
Transaction(run) == IF run.ok THEN run ELSE Panic(Current)

\* variant: the sign of the amount is not checked
CanTake_any_sign(balance, amount) == amount <= balance

\* Vault::take / Bucket::take(amount) panics on a negative amount and on an
\* amount above the balance
CanTake(balance, amount) == amount >= 0 /\ amount <= balance

\* the caller holds a ticket (or a proof of one) only while it is not burned
Held(ticket) == ticket.resource = BankerTicket /\ ticket.id \in DOMAIN banker_tickets

\* BankerTicketData
TicketData(bank_amount, borrow_amount, deposit_epoch) ==
    [bank_amount |-> bank_amount, borrow_amount |-> borrow_amount,
     deposit_epoch |-> deposit_epoch]

max_borrow_amount(data) ==
    DecDiv(data.bank_amount - data.borrow_amount, COLLATERAL_RATIO)

\* self.bank_amount / dec!("1.5"), the divisor of percentage_of_unused_collateral
borrow_capacity(data) == DecDiv(data.bank_amount, COLLATERAL_RATIO)

\* variant: the loan is compared with the whole collateral
percentage_of_collateral_left(data) ==
    ONE - DecDiv(data.borrow_amount, data.bank_amount)

\* defined when borrow_capacity(data) # 0
percentage_of_unused_collateral(data) ==
    ONE - DecDiv(data.borrow_amount, borrow_capacity(data))

\* ----------------------------------------------------------------- methods
\* variant: a deposit of exactly 100 is accepted
bank_assert_inclusive(amount) == amount >= MIN_BANK

\* assert!(bank.amount() > dec!("100"))
bank_assert(amount) == amount > MIN_BANK

\* bank(bank: Bucket) with banker_ticket_id = id
bank_body(amount, id) ==
    IF ~bank_assert(amount) THEN Panic(Current)
    ELSE Done(0, State(
            (id :> TicketData(amount, 0, epoch)) @@ banker_tickets,
            (id :> 0) @@ bankers_rewards,
            bank_pool + amount))

bank(amount, id) == Transaction(bank_body(amount, id))

\* variant: the lock lasts one epoch longer
unbank_epoch_assert_strict(data) == epoch > data.deposit_epoch + LOCK_EPOCHS

\* assert!(Runtime::current_epoch() >= data.deposit_epoch + 500) in unbank
unbank_epoch_assert(data) == epoch >= data.deposit_epoch + LOCK_EPOCHS

\* variant: a position that owes nothing or less may close
unbank_borrow_assert_no_debt(data) == data.borrow_amount <= 0

\* assert!(data.borrow_amount == dec!("0"))
unbank_borrow_assert(data) == data.borrow_amount = 0

\* variant: the ticket is not burned
burn_skipped(tickets, id) == tickets

\* resource_manager.burn(ticket)
burn(tickets, id) == [i \in DOMAIN tickets \ {id} |-> tickets[i]]

\* unbank(ticket: Bucket)
unbank_body(ticket) ==
    IF ~Held(ticket) THEN Panic(Current)
    ELSE LET data == banker_tickets[ticket.id]
         IN  IF ~unbank_epoch_assert(data) THEN Panic(Current)
             ELSE IF ~unbank_borrow_assert(data) THEN Panic(Current)
             ELSE IF ~CanTake(bank_pool, data.bank_amount) THEN Panic(Current)
             ELSE LET pool1 == bank_pool - data.bank_amount
                  IN  IF ticket.id \notin DOMAIN bankers_rewards
                      THEN Panic(State(banker_tickets, bankers_rewards, pool1))
                      ELSE Done(data.bank_amount + bankers_rewards[ticket.id],
                                State(burn(banker_tickets, ticket.id),
                                      [bankers_rewards EXCEPT ![ticket.id] = 0],
                                      pool1))

unbank(ticket) == Transaction(unbank_body(ticket))

\* assert!(Runtime::current_epoch() >= data.deposit_epoch + 500) in reduce_bank
reduce_bank_epoch_assert(data) == epoch >= data.deposit_epoch + LOCK_EPOCHS

\* assert!((data.bank_amount - amount) / dec!("1.5") >= data.borrow_amount)
reduce_bank_ratio_assert(data, amount) ==
    DecDiv(data.bank_amount - amount, COLLATERAL_RATIO) >= data.borrow_amount

\* reduce_bank(ticket: Proof, amount: Decimal)
reduce_bank_body(ticket, amount) ==
    IF ~Held(ticket) THEN Panic(Current)
    ELSE LET data == banker_tickets[ticket.id]
         IN  IF ~reduce_bank_epoch_assert(data) THEN Panic(Current)
             ELSE IF ~reduce_bank_ratio_assert(data, amount) THEN Panic(Current)
             ELSE LET tickets1 == [banker_tickets EXCEPT ![ticket.id] =
                                     TicketData(data.bank_amount - amount,
                                                data.borrow_amount, data.deposit_epoch)]
                  IN  IF ~CanTake(bank_pool, amount)
                      THEN Panic(State(tickets1, bankers_rewards, bank_pool))
                      ELSE Done(amount, State(tickets1, bankers_rewards, bank_pool - amount))

reduce_bank(ticket, amount) == Transaction(reduce_bank_body(ticket, amount))

\* variant: a partial repayment is accepted
payback_assert_missing(data, amount) == TRUE

\* assert!(payback.amount() >= data.borrow_amount)
payback_assert(data, amount) == amount >= data.borrow_amount

\* variant: the loan is cleared, whatever was paid
payback_update_cleared(data, amount) ==
    TicketData(data.bank_amount, 0, data.deposit_epoch)

\* the BankerTicketData payback_loan writes
payback_update(data, amount) ==
    TicketData(data.bank_amount, data.borrow_amount - amount, data.deposit_epoch)

\* payback_loan(ticket: Proof, payback: Bucket)
payback_loan_body(ticket, amount) ==
    IF ~Held(ticket) THEN Panic(Current)
    ELSE LET data == banker_tickets[ticket.id]
         IN  IF ~payback_assert(data, amount) THEN Panic(Current)
             ELSE Done(0, State(
                     [banker_tickets EXCEPT ![ticket.id] = payback_update(data, amount)],
                     bankers_rewards,
                     bank_pool + amount))

payback_loan(ticket, amount) == Transaction(payback_loan_body(ticket, amount))

\* variant: the vault is read, not emptied
claim_rewards_body_keeps(ticket) ==
    IF ~Held(ticket) THEN Panic(Current)
    ELSE IF ticket.id \notin DOMAIN bankers_rewards THEN Panic(Current)
    ELSE Done(bankers_rewards[ticket.id], Current)

\* claim_rewards(ticket: Proof)
claim_rewards_body(ticket) ==
    IF ~Held(ticket) THEN Panic(Current)
    ELSE IF ticket.id \notin DOMAIN bankers_rewards THEN Panic(Current)
    ELSE Done(bankers_rewards[ticket.id],
              State(banker_tickets, [bankers_rewards EXCEPT ![ticket.id] = 0], bank_pool))

claim_rewards(ticket) == Transaction(claim_rewards_body(ticket))

\* variant: the limit ignores what is already borrowed
borrow_assert_ignores_loan(data, amount) == borrow_capacity(data) >= amount

\* assert!(data.max_borrow_amount() >= amount)
borrow_assert(data, amount) == max_borrow_amount(data) >= amount

\* amount_owed of one visited position; defined when borrow_capacity(data) # 0
\* and pool # 0
amount_owed(data, party_commission, pool) ==
    DecDiv(DecMul(DecMul(data.bank_amount, percentage_of_unused_collateral(data)),
                  party_commission),
           pool)

\* variant: the shares handed out are taken off the balance read as divisor
RECURSIVE distribute_drifting(_, _, _, _, _, _)
distribute_drifting(order, tickets, rewards, commission, party_commission, pool) ==
    LET here == [ok |-> FALSE, rewards |-> rewards, commission |-> commission,
                 divisors |-> << >>]
    IN  IF order = << >>
        THEN [ok |-> TRUE, rewards |-> rewards, commission |-> commission,
              divisors |-> << >>]
        ELSE LET id == Head(order)
             IN  IF id \notin DOMAIN tickets THEN here
                 ELSE IF borrow_capacity(tickets[id]) = 0 THEN here
                 ELSE IF pool = 0 THEN here
                 ELSE LET owed == amount_owed(tickets[id], party_commission, pool)
                      IN  IF ~CanTake(commission, owed) THEN here
                          ELSE LET rest == distribute_drifting(
                                              Tail(order), tickets,
                                              [rewards EXCEPT ![id] = @ + owed],
                                              commission - owed, party_commission,
                                              pool - owed)
                               IN  [rest EXCEPT !.divisors = <<pool>> \o @]

\* for (non_fungible_id, vault) in &mut self.bankers_rewards { ... }, the
\* vaults visited in `order`; `commission` is what bankers_commission holds,
\* `pool` what self.bank_pool.amount() returns (the loop moves nothing in or
\* out of bank_pool); divisors lists the balances the visits divided by
RECURSIVE distribute(_, _, _, _, _, _)
distribute(order, tickets, rewards, commission, party_commission, pool) ==
    LET here == [ok |-> FALSE, rewards |-> rewards, commission |-> commission,
                 divisors |-> << >>]
    IN  IF order = << >>
        THEN [ok |-> TRUE, rewards |-> rewards, commission |-> commission,
              divisors |-> << >>]
        ELSE LET id == Head(order)
             IN  IF id \notin DOMAIN tickets THEN here
                 ELSE IF borrow_capacity(tickets[id]) = 0 THEN here
                 ELSE IF pool = 0 THEN here
                 ELSE LET owed == amount_owed(tickets[id], party_commission, pool)
                      IN  IF ~CanTake(commission, owed) THEN here
                          ELSE LET rest == distribute(
                                              Tail(order), tickets,
                                              [rewards EXCEPT ![id] = @ + owed],
                                              commission - owed, party_commission,
                                              pool)
                               IN  [rest EXCEPT !.divisors = <<pool>> \o @]

\* variant: the loan is recorded net of the commission
borrow_update_net(data, amount) ==
    TicketData(data.bank_amount,
               data.borrow_amount + amount - DecMul(amount, COMMISSION_RATE),
               data.deposit_epoch)

\* the BankerTicketData borrow writes for the borrower
borrow_update(data, amount) ==
    TicketData(data.bank_amount, data.borrow_amount + amount, data.deposit_epoch)

\* variant: the rest of bankers_commission is dropped
borrow_returns_without_rest(amount, party_commission, left) == amount - party_commission

\* what borrow returns: borrowed_funds with the rest of bankers_commission put back
borrow_returns(amount, party_commission, left) == (amount - party_commission) + left

\* outcome of a borrow that ran to its end, with the balances its loop read
BorrowDone(ret, st, divisors) ==
    [ok |-> TRUE, ret |-> ret, st |-> st, divisors |-> divisors]

\* borrow(ticket: Proof, amount: Decimal), the reward map iterated in `order`
borrow_body(ticket, amount, order) ==
    IF ~Held(ticket) THEN Panic(Current)
    ELSE LET data == banker_tickets[ticket.id]
         IN  IF ~borrow_assert(data, amount) THEN Panic(Current)
             ELSE LET party_commission == DecMul(amount, COMMISSION_RATE)
                  IN  IF ~CanTake(bank_pool, amount) THEN Panic(Current)
                      ELSE IF ~CanTake(amount, party_commission)
                      THEN Panic(State(banker_tickets, bankers_rewards, bank_pool - amount))
                      ELSE LET pool1 == bank_pool - amount
                               tickets1 == [banker_tickets EXCEPT ![ticket.id] =
                                              borrow_update(data, amount)]
                               d == distribute(order, tickets1, bankers_rewards,
                                               party_commission, party_commission, pool1)
                           IN  IF ~d.ok THEN Panic(State(tickets1, d.rewards, pool1))
                               ELSE BorrowDone(
                                        borrow_returns(amount, party_commission, d.commission),
                                        State(tickets1, d.rewards, pool1), d.divisors)

borrow(ticket, amount, order) == Transaction(borrow_body(ticket, amount, order))

\* the orders in which a HashMap with these keys can be iterated
Orders(keys) ==
    {o \in [1..Cardinality(keys) -> keys] : \A i, j \in 1..Cardinality(keys) : o[i] = o[j] => i = j}

\* ----------------------------------------------------------------- actions
Ticket(id) == [resource |-> BankerTicket, id |-> id]

Call(op, id, amount, r) == [op |-> op, id |-> id, amount |-> amount, ret |-> r.ret]

\* the record of a borrow also keeps the balances its loop divided by
BorrowCall(id, amount, r) ==
    [op |-> "borrow", id |-> id, amount |-> amount, ret |-> r.ret,
     divisors |-> IF r.ok THEN r.divisors ELSE << >>]

\* The ledger takes what the transaction left.  A call that panicked is a
\* rejected transaction: it is no entry of the ledger (last, calls).
Commit(call, r) ==
    /\ banker_tickets' = r.st.tickets
    /\ bankers_rewards' = r.st.rewards
    /\ bank_pool' = r.st.pool
    /\ calls' = IF r.ok THEN calls + 1 ELSE calls
    /\ last' = IF r.ok THEN call ELSE last
    /\ UNCHANGED epoch

Init ==
    /\ banker_tickets = << >>
    /\ bankers_rewards = << >>
    /\ bank_pool = 0
    /\ epoch = 0
    /\ last = [op |-> "instantiate", id |-> 0, amount |-> 0, ret |-> 0]
    /\ closed = {}
    /\ calls = 0

\* NonFungibleId::random(): an id never drawn before.  Ids are opaque and the
\* iteration order of the reward map is chosen apart from them, so the first
\* unused id stands for any fresh one.
FreshIds ==
    LET free == Ids \ DOMAIN bankers_rewards
    IN  {id \in free : \A other \in free : id <= other}

Bank ==
    /\ calls < MaxCalls
    /\ \E amount \in BankAmounts, id \in FreshIds :
          LET r == bank(amount, id)
          IN  /\ Commit(Call("bank", id, amount, r), r)
              /\ UNCHANGED closed

Unbank ==
    /\ calls < MaxCalls
    /\ \E ticket \in Presented :
          LET r == unbank(ticket)
          IN  /\ Commit(Call("unbank", ticket.id, 0, r), r)
              /\ closed' = IF r.ok THEN closed \cup {ticket.id} ELSE closed

ReduceBank ==
    /\ calls < MaxCalls
    /\ \E ticket \in Presented, amount \in ReduceAmounts :
          LET r == reduce_bank(ticket, amount)
          IN  /\ Commit(Call("reduce_bank", ticket.id, amount, r), r)
              /\ UNCHANGED closed

PaybackLoan ==
    /\ calls < MaxCalls
    /\ \E ticket \in Presented, amount \in PaybackAmounts :
          LET r == payback_loan(ticket, amount)
          IN  /\ Commit(Call("payback_loan", ticket.id, amount, r), r)
              /\ UNCHANGED closed

ClaimRewards ==
    /\ calls < MaxCalls
    /\ \E ticket \in Presented :
          LET r == claim_rewards(ticket)
          IN  /\ Commit(Call("claim_rewards", ticket.id, 0, r), r)
              /\ UNCHANGED closed

Borrow ==
    /\ calls < MaxCalls
    /\ \E ticket \in Presented, amount \in BorrowAmounts, order \in Orders(DOMAIN bankers_rewards) :
          LET r == borrow(ticket, amount, order)
          IN  /\ Commit(BorrowCall(ticket.id, amount, r), r)
              /\ UNCHANGED closed

\* the clock moves on between transactions
AdvanceEpoch ==
    /\ \E e \in Epochs :
          /\ e > epoch
          /\ epoch' = e
    /\ UNCHANGED <<banker_tickets, bankers_rewards, bank_pool, last, closed, calls>>

Next ==
    \/ Bank
    \/ Unbank
    \/ ReduceBank
    \/ PaybackLoan
    \/ ClaimRewards
    \/ Borrow
    \/ AdvanceEpoch

Spec == Init /\ [][Next]_vars

\* ------------------------------------------------------------------ claims
Live == DOMAIN banker_tickets

RECURSIVE SumOf(_, _)
\* sum of f[i] over i in S
SumOf(f, S) ==
    IF S = {} THEN 0
    ELSE LET i == CHOOSE x \in S : TRUE IN f[i] + SumOf(f, S \ {i})

SumCollateral == SumOf([i \in Live |-> banker_tickets[i].bank_amount], Live)
SumBorrowed == SumOf([i \in Live |-> banker_tickets[i].borrow_amount], Live)
SumRewards(rewards) == SumOf(rewards, DOMAIN rewards)

\* C1: every live position satisfies borrowed_amount * 1.5 <= collateral_amount
\* (stated exactly: 3 * borrowed <= 2 * collateral).
C1_CollateralRatio ==
    \A id \in Live :
        3 * banker_tickets[id].borrow_amount <= 2 * banker_tickets[id].bank_amount

\* C2 as stated: the sum of collateral_amount over the live positions is at
\* most the pool balance.
C2_SolvencyAsStated == SumCollateral <= bank_pool

\* C2 amended: the sum of (collateral_amount - borrowed_amount) over the live
\* positions is at most the pool balance.
C2_Solvency == SumCollateral - SumBorrowed <= bank_pool

\* a position has borrowed while another one is open: the pool holds less
\* than the collateral
C2_Witness ==
    /\ last.op = "borrow"
    /\ SumBorrowed > 0
    /\ SumCollateral > bank_pool
    /\ Cardinality(Live) >= 2

\* C3: borrowed_amount of a live position is never negative.
C3_BorrowedNonNegative == \A id \in Live : banker_tickets[id].borrow_amount >= 0

\* C4: collateral_amount of a live position is never negative.
C4_CollateralNonNegative == \A id \in Live : banker_tickets[id].bank_amount >= 0

\* C8: the reward ledger holds an account for exactly the live positions.
C8_RewardAccountsAreLive == DOMAIN bankers_rewards = Live

\* C5: while epoch < deposit_epoch + 500 unbank and reduce_bank fail and change
\* nothing; from epoch = deposit_epoch + 500 on the lock check lets them through
\* (they succeed when their other checks pass); a position that is no longer
\* locked stays so.
Locked(id) == epoch < banker_tickets[id].deposit_epoch + LOCK_EPOCHS

C5_LockedCallsFail ==
    \A id \in Live :
        Locked(id) =>
            /\ ~unbank(Ticket(id)).ok
            /\ unbank(Ticket(id)).st = Current
            /\ \A amount \in ReduceAmounts :
                  /\ ~reduce_bank(Ticket(id), amount).ok
                  /\ reduce_bank(Ticket(id), amount).st = Current

C5_UnlockedCallsPass ==
    \A id \in Live :
        ~Locked(id) =>
            /\ (/\ banker_tickets[id].borrow_amount = 0
                /\ banker_tickets[id].bank_amount >= 0
                /\ banker_tickets[id].bank_amount <= bank_pool)
                  => unbank(Ticket(id)).ok
            /\ \A amount \in ReduceAmounts :
                  (/\ amount >= 0
                   /\ amount <= bank_pool
                   /\ 3 * banker_tickets[id].borrow_amount
                         <= 2 * (banker_tickets[id].bank_amount - amount))
                      => reduce_bank(Ticket(id), amount).ok

C5_LockEnforcement ==
    /\ [](C5_LockedCallsFail /\ C5_UnlockedCallsPass)
    /\ [][\A id \in Live : (~Locked(id) /\ id \in DOMAIN banker_tickets') => ~Locked(id)']_vars

C5_Witness ==
    /\ last.op = "reduce_bank"
    /\ last.id \in Live
    /\ epoch = banker_tickets[last.id].deposit_epoch + LOCK_EPOCHS
    /\ \E other \in Live : Locked(other)

\* C6: a successful borrow(amount) returns amount less the shares it credited
\* to the reward accounts, and takes exactly amount out of the pool.
C6_BorrowConservation ==
    [][(calls' = calls + 1 /\ last'.op = "borrow") =>
          /\ last'.ret + (SumRewards(bankers_rewards') - SumRewards(bankers_rewards))
                = last'.amount
          /\ last'.ret <= last'.amount
          /\ bank_pool' = bank_pool - last'.amount]_vars

\* a borrow has been made that credited part of its commission and gave the
\* rest of it back to the borrower
C6_Witness ==
    /\ last.op = "borrow"
    /\ last.ret < last.amount
    /\ last.ret > last.amount - DecMul(last.amount, COMMISSION_RATE)

\* C7: once unbank has succeeded for an id, every call presented for that id
\* fails, and the pool is not debited for it again.
C7_NoDoubleClose ==
    \A id \in closed :
        /\ ~unbank(Ticket(id)).ok
        /\ unbank(Ticket(id)).st.pool = bank_pool
        /\ ~claim_rewards(Ticket(id)).ok
        /\ \A amount \in ReduceAmounts :
              /\ ~reduce_bank(Ticket(id), amount).ok
              /\ reduce_bank(Ticket(id), amount).st.pool = bank_pool
        /\ \A amount \in PaybackAmounts : ~payback_loan(Ticket(id), amount).ok
        /\ \A amount \in BorrowAmounts, order \in Orders(DOMAIN bankers_rewards) :
              /\ ~borrow(Ticket(id), amount, order).ok
              /\ borrow(Ticket(id), amount, order).st.pool = bank_pool

\* a position was closed and the pool still holds what another unbank of it
\* would take
C7_Witness ==
    \E id \in closed :
        /\ Live # {}
        /\ bank_pool >= 100 * ONE
        /\ last.op # "unbank"

\* C9: a call that fails (a step that is no successful call: calls stays)
\* leaves every position, every reward account and the pool as they were.
C9_FailedCallChangesNothing ==
    [][calls' = calls =>
          /\ banker_tickets' = banker_tickets
          /\ bankers_rewards' = bankers_rewards
          /\ bank_pool' = bank_pool]_vars

\* a borrow that panics inside the distribution loop, after the borrower's
\* borrow_amount was written and a share was credited
C9_Witness ==
    \E id \in Live, amount \in BorrowAmounts, order \in Orders(DOMAIN bankers_rewards) :
        LET run == borrow_body(Ticket(id), amount, order)
        IN  /\ ~run.ok
            /\ run.st.tickets[id].borrow_amount # banker_tickets[id].borrow_amount
            /\ run.st.rewards # bankers_rewards
            /\ ~borrow(Ticket(id), amount, order).ok

C11_Payback ==
    \A id \in Live, amount \in PaybackAmounts :
        LET r == payback_loan(Ticket(id), amount)
            data == banker_tickets[id]
        IN  /\ amount < data.borrow_amount => (~r.ok /\ r.st = Current)
            /\ r.ok =>
                  /\ r.st.tickets[id].borrow_amount = data.borrow_amount - amount
                  /\ r.st.tickets[id].bank_amount = data.bank_amount
                  /\ r.st.tickets[id].deposit_epoch = data.deposit_epoch
                  /\ r.st.pool = bank_pool + amount

\* a loan was paid back while another position owes more than the smallest
\* payment on offer
C11_Witness ==
    /\ last.op = "payback_loan"
    /\ last.id \in Live
    /\ \E id \in Live, amount \in PaybackAmounts :
          /\ amount < banker_tickets[id].borrow_amount
          /\ ~payback_loan(Ticket(id), amount).ok

\* C12: unbank fails unless borrowed_amount is exactly 0; when it succeeds it
\* returns collateral_amount plus the whole balance of the position's reward
\* account, the pool goes down by exactly collateral_amount, and no other
\* position or reward account changes.
C12_Unbank ==
    \A id \in Live :
        LET r == unbank(Ticket(id))
            data == banker_tickets[id]
        IN  /\ data.borrow_amount # 0 => ~r.ok
            /\ r.ok =>
                  /\ r.ret = data.bank_amount + bankers_rewards[id]
                  /\ r.st.pool = bank_pool - data.bank_amount
                  /\ DOMAIN r.st.tickets = Live \ {id}
                  /\ \A other \in Live \ {id} : r.st.tickets[other] = banker_tickets[other]
                  /\ \A other \in DOMAIN bankers_rewards \ {id} :
                        /\ other \in DOMAIN r.st.rewards
                        /\ r.st.rewards[other] = bankers_rewards[other]

\* a position was closed and took its rewards with it, while another position
\* keeps its own
C12_Witness ==
    /\ last.op = "unbank"
    /\ last.ret \notin BankAmounts
    /\ bankers_rewards[last.id] = 0
    /\ \E other \in Live : bankers_rewards[other] > 0

\* C13: a reward balance is 0 right after bank, is never negative, goes up
\* only in a borrow, and goes down only in a claim_rewards or unbank presented
\* for that same position; bank, reduce_bank and payback_loan change no reward
\* balance.
C13_RewardsNonNegative == \A id \in DOMAIN bankers_rewards : bankers_rewards[id] >= 0

C13_RewardStep ==
    \A id \in DOMAIN bankers_rewards' :
        IF id \notin DOMAIN bankers_rewards
        THEN /\ bankers_rewards'[id] = 0
             /\ calls' = calls + 1
             /\ last'.op = "bank"
             /\ last'.id = id
        ELSE /\ bankers_rewards'[id] > bankers_rewards[id] =>
                  (calls' = calls + 1 /\ last'.op = "borrow")
             /\ bankers_rewards'[id] < bankers_rewards[id] =>
                  /\ calls' = calls + 1
                  /\ last'.op \in {"claim_rewards", "unbank"}
                  /\ last'.id = id

C13_RewardLifecycle ==
    /\ []C13_RewardsNonNegative
    /\ [][C13_RewardStep /\ DOMAIN bankers_rewards \subseteq DOMAIN bankers_rewards']_vars

\* a borrow has credited every one of two open positions
C13_Witness ==
    /\ last.op = "borrow"
    /\ Cardinality(Live) = 2
    /\ \A id \in Live : bankers_rewards[id] > 0

\* C14: claim_rewards returns the balance of the caller's reward account and
\* leaves it at 0; the pool, every position and every other reward account
\* stay; a second claim right after it returns 0.
C14_ClaimCall ==
    \A id \in Live :
        LET r == claim_rewards(Ticket(id))
        IN  /\ r.ok
            /\ r.ret = bankers_rewards[id]
            /\ DOMAIN r.st.rewards = DOMAIN bankers_rewards
            /\ r.st.rewards[id] = 0
            /\ \A other \in DOMAIN bankers_rewards \ {id} :
                  r.st.rewards[other] = bankers_rewards[other]
            /\ r.st.pool = bank_pool
            /\ r.st.tickets = banker_tickets

C14_ClaimRewards ==
    /\ []C14_ClaimCall
    /\ [][(/\ calls' = calls + 1
           /\ last'.op = "claim_rewards"
           /\ last.op = "claim_rewards"
           /\ last.id = last'.id) => last'.ret = 0]_vars

\* rewards were claimed while another position keeps its own
C14_Witness ==
    /\ last.op = "claim_rewards"
    /\ last.ret > 0
    /\ bankers_rewards[last.id] = 0
    /\ \E other \in Live \ {last.id} : bankers_rewards[other] > 0

\* C15: a successful borrow(amount) by position X raises X's borrowed_amount
\* by the whole amount, leaves X's collateral_amount and opened_at and every
\* other position as they were, and its limit amount <= (collateral -
\* borrowed) / 1.5 held of X before the update.
C15_BorrowStep ==
    (calls' = calls + 1 /\ last'.op = "borrow") =>
        LET X == last'.id
            amount == last'.amount
        IN  /\ X \in Live
            /\ DOMAIN banker_tickets' = Live
            /\ banker_tickets'[X].borrow_amount = banker_tickets[X].borrow_amount + amount
            /\ banker_tickets'[X].bank_amount = banker_tickets[X].bank_amount
            /\ banker_tickets'[X].deposit_epoch = banker_tickets[X].deposit_epoch
            /\ \A other \in Live \ {X} : banker_tickets'[other] = banker_tickets[other]
            /\ 3 * amount <= 2 * (banker_tickets[X].bank_amount - banker_tickets[X].borrow_amount)

C15_BorrowFrame == [][C15_BorrowStep]_vars

\* a position that already owed borrowed again, next to another position
C15_Witness ==
    /\ last.op = "borrow"
    /\ last.id \in Live
    /\ banker_tickets[last.id].borrow_amount > last.amount
    /\ last.amount >= 50 * ONE
    /\ Cardinality(Live) = 2

\* C16: in a successful borrow(amount), with commission = amount * 0.02, every
\* live position p is credited
\*   p.collateral * (1 - p.borrowed / (p.collateral / 1.5)) * commission / pool
\* (Decimal arithmetic, left to right), p.borrowed read after the borrower's
\* update and pool after amount was taken out; a single position of 1000 that
\* borrows 300 pays a commission of 6 and receives 294 plus what of the 6 was
\* not credited.
C16_Share(data, commission, pool) ==
    DecDiv(
        DecMul(
            DecMul(data.bank_amount,
                   ONE - DecDiv(data.borrow_amount,
                                DecDiv(data.bank_amount, COLLATERAL_RATIO))),
            commission),
        pool)

C16_BorrowStep ==
    (calls' = calls + 1 /\ last'.op = "borrow") =>
        \A p \in Live :
            bankers_rewards'[p] - bankers_rewards[p]
                = C16_Share(banker_tickets'[p], DecMul(last'.amount, COMMISSION_RATE), bank_pool')

C16_Example ==
    LET after == borrow_update(TicketData(1000 * ONE, 0, 0), 300 * ONE)
        commission == DecMul(300 * ONE, COMMISSION_RATE)
        credited == amount_owed(after, commission, 1000 * ONE - 300 * ONE)
    IN  /\ after.borrow_amount = 300 * ONE
        /\ commission = 6 * ONE
        /\ credited = C16_Share(after, commission, 700 * ONE)
        /\ credited >= 0
        /\ credited <= commission
        /\ borrow_returns(300 * ONE, commission, commission - credited)
              = 294 * ONE + (commission - credited)

C16_Shares == [][C16_BorrowStep /\ C16_Example]_vars

\* a borrow credited two positions with different shares
C16_Witness ==
    /\ last.op = "borrow"
    /\ \E p, q \in Live :
          /\ bankers_rewards[p] > bankers_rewards[q]
          /\ bankers_rewards[q] > 0

\* C17 as stated: within one borrow the balance read as divisor changes as
\* commission is handed out, so a borrow that credits two positions divided
\* by two different balances.
C17_DivisorDrifts ==
    [][(/\ calls' = calls + 1
        /\ last'.op = "borrow"
        /\ \E p, q \in Live :
              /\ p # q
              /\ bankers_rewards'[p] > bankers_rewards[p]
              /\ bankers_rewards'[q] > bankers_rewards[q])
       => \E i, j \in DOMAIN last'.divisors : last'.divisors[i] # last'.divisors[j]]_vars

\* C17: within one borrow every visit of the distribution loop divides by the
\* same balance, the pool after the borrowed amount was taken out (the shares
\* leave the withdrawn funds, not the pool), so two positions with identical
\* collateral_amount and borrowed_amount are credited equal shares.
C17_BorrowStep ==
    (calls' = calls + 1 /\ last'.op = "borrow") =>
        /\ Len(last'.divisors) = Cardinality(DOMAIN bankers_rewards)
        /\ \A i \in DOMAIN last'.divisors : last'.divisors[i] = bank_pool'
        /\ \A p, q \in Live :
              (/\ banker_tickets'[p].bank_amount = banker_tickets'[q].bank_amount
               /\ banker_tickets'[p].borrow_amount = banker_tickets'[q].borrow_amount)
              => bankers_rewards'[p] - bankers_rewards[p]
                    = bankers_rewards'[q] - bankers_rewards[q]

C17_FixedDivisor == [][C17_BorrowStep]_vars

\* a borrow visited two positions with identical amounts, both rewarded
C17_Witness ==
    /\ last.op = "borrow"
    /\ Len(last.divisors) = 2
    /\ last.divisors[1] > 0
    /\ \E p, q \in Live :
          /\ p # q
          /\ banker_tickets[p].bank_amount = banker_tickets[q].bank_amount
          /\ banker_tickets[p].borrow_amount = banker_tickets[q].borrow_amount
          /\ banker_tickets[p].borrow_amount > 0
          /\ bankers_rewards[p] > 0
          /\ bankers_rewards[q] > 0

\* C18: in every reachable state a borrow by a live position with
\* 0 < amount <= (collateral_amount - borrowed_amount) / 1.5 succeeds, in
\* whatever order the distribution loop visits the reward accounts.
C18_BorrowAvailable ==
    \A id \in Live, amount \in BorrowAmounts :
        (/\ 0 < amount
         /\ amount <= max_borrow_amount(banker_tickets[id]))
        => \A order \in Orders(DOMAIN bankers_rewards) :
              borrow(Ticket(id), amount, order).ok

\* C19: in every reachable state the pool balance equals the sum over the live
\* positions of (collateral_amount - borrowed_amount); commission and rewards
\* are carved out of the funds a borrow has already withdrawn and take no part
\* in it.
C19_PoolIdentity == bank_pool = SumCollateral - SumBorrowed

\* a loan is outstanding, rewards were credited and a position was closed
C19_Witness ==
    /\ SumBorrowed > 0
    /\ SumRewards(bankers_rewards) > 0
    /\ closed # {}
    /\ Live # {}
    /\ bank_pool > 0

\* C20: for every state a call is made in and every borrow(ticket, amount),
\* whether the call succeeds, the amount returned to the caller and the amount
\* then held by each reward account are the same for every order in which the
\* distribution loop visits the reward accounts.
C20_Outcome(r) == [ok |-> r.ok, ret |-> r.ret, st |-> r.st]

C20_OrderIndependence ==
    calls < MaxCalls =>
        \A t \in Presented, amount \in BorrowAmounts :
            Cardinality({C20_Outcome(borrow(t, amount, order)) :
                            order \in Orders(DOMAIN bankers_rewards)}) = 1

\* two reward accounts hold different amounts, so two orders exist and the
\* shares a further borrow hands out differ between the accounts
C20_Witness ==
    /\ calls < MaxCalls
    /\ Cardinality(DOMAIN bankers_rewards) = 2
    /\ Cardinality(Live) = 2
    /\ last.op = "borrow"
    /\ \E p, q \in Live : bankers_rewards[p] > bankers_rewards[q]
    /\ \E id \in Live, amount \in BorrowAmounts,
          order \in Orders(DOMAIN bankers_rewards) :
          /\ borrow(Ticket(id), amount, order).ok
          /\ \E p, q \in Live :
                borrow(Ticket(id), amount, order).st.rewards[p]
                    - bankers_rewards[p]
                  > borrow(Ticket(id), amount, order).st.rewards[q]
                    - bankers_rewards[q]

====
